---- MODULE Spec2Model ----
(***************************************************************************)
(* web-burp: the request store (src/storage.py) and the Flask handlers     *)
(* that drive it (src/app.py).  Every RequestStore method runs under the   *)
(* store's single Lock and is one atomic step; a handler that calls the    *)
(* store more than once (capture_request, get_decision) is one step per    *)
(* locked call, because Flask serves requests on concurrent threads        *)
(* (async_mode='threading').                                               *)
(*                                                                         *)
(* A captured request is the record [id, captured_at, method, host,        *)
(* intercepted]; the remaining keys the agent sends (url, port, scheme,    *)
(* path, headers, content, status, timestamp) are opaque to the store and  *)
(* are left out.  An absent 'intercepted' key is intercepted = FALSE.      *)
(* datetime.utcnow() is the logical clock `now`, which advances at every   *)
(* reading.                                                                *)
(***************************************************************************)
EXTENDS Integers, Sequences, FiniteSets, TLC

VARIABLES
    requests,             \* RequestStore.requests: the request log
    id_counter,           \* RequestStore._id_counter
    intercept_enabled,    \* RequestStore.intercept_enabled
    intercept_queue,      \* RequestStore.intercept_queue
    intercept_decisions,  \* RequestStore.intercept_decisions: id -> decision
    now,                  \* the clock read by datetime.utcnow()
    pc,                   \* per handler thread: where it is in its handler
    loc,                  \* per handler thread: the handler's local variables
    returned,             \* history: the decisions (by timestamp) a poll has returned and
                          \* another poll still holds
    last,                 \* history: the last step taken, its arguments and its result
    repeater,             \* the replay history and its id counter
    held_decision,        \* history: the action last decided for the id the agent
                          \* polls, since the agent took up the request it holds
    agent                 \* the capture agent: RequestCapture.request_count and, for
                          \* the request it is handling, where it is in request(),
                          \* its local variables and the live flow

vars == <<requests, id_counter, intercept_enabled, intercept_queue,
          intercept_decisions, now, pc, loc, returned, last, agent, repeater,
          held_decision>>

store == <<requests, id_counter, intercept_enabled, intercept_queue,
           intercept_decisions>>

----------------------------------------------------------------------------
(* Bounds *)

MaxClock == 4      \* readings of the clock: ingests + decisions in one run
NThreads == 2      \* handler threads that can be inside a multi-step handler
MaxReqId == 2      \* request ids an operator or agent names in a URL: 1..MaxReqId
MaxLimit == 3      \* ?limit= values tried: -1..MaxLimit
MaxFlows == 2      \* requests that reach the capture agent in one run

(* Program constants *)

DefaultLimit == 100       \* get_requests: request.args.get('limit', type=int, default=100)
HistoryLimit == 50        \* handle_request_history: data.get('limit', 50)
MaxWaitMs == 300000       \* RequestCapture.request: max_wait = 300 (seconds)
PollIntervalMs == 500     \* RequestCapture.request: poll_interval = 0.5 (seconds)
RepeaterLimit == 50       \* get_repeater_history: request.args.get('limit', type=int, default=50)

----------------------------------------------------------------------------
(* Python values *)

NoneV == [none |-> TRUE]                 \* None
EmptyDict == [k \in {} |-> TRUE]         \* {}

\* bool(x) of a dict or None
Truthy(x) == x # NoneV /\ DOMAIN x # {}

\* x or {}
OrEmpty(x) == IF Truthy(x) THEN x ELSE EmptyDict

\* d.get(k, default) on a dict d
DictGet(d, k, default) == IF k \in DOMAIN d THEN d[k] ELSE default

Min(a, b) == IF a < b THEN a ELSE b
Max(a, b) == IF a > b THEN a ELSE b

\* s[start:] of a list
SliceFrom(s, start) ==
    LET n  == Len(s)
        lo == IF start < 0 THEN Max(n + start, 0) ELSE Min(start, n)
    IN  SubSeq(s, lo + 1, n)

\* list(reversed(s))
Reversed(s) == [i \in 1..Len(s) |-> s[Len(s) - i + 1]]

\* [req for req in s if req.get('id') != request_id]
RECURSIVE WithoutId(_, _)
WithoutId(s, request_id) ==
    IF s = <<>> THEN <<>>
    ELSE IF Head(s).id # request_id
         THEN <<Head(s)>> \o WithoutId(Tail(s), request_id)
         ELSE WithoutId(Tail(s), request_id)

\* x in s, for a list s (== on dicts: same keys, same values)
InList(x, s) == \E i \in 1..Len(s) : s[i] = x

----------------------------------------------------------------------------
(* Inputs *)

Threads == 1..NThreads
ReqIds == 1..MaxReqId

\* the bodies POSTed to /api/requests/capture: with and without the agent's
\* 'intercepted' mark
CaptureBodies ==
    { [method |-> "GET", host |-> "example.com", intercepted |-> b] : b \in BOOLEAN }

\* the same, for the reads of the log: requests that differ in method and host
LogBodies ==
    { [method |-> "GET",  host |-> "example.com", intercepted |-> FALSE],
      [method |-> "POST", host |-> "example.com", intercepted |-> FALSE],
      [method |-> "GET",  host |-> "other.com",   intercepted |-> FALSE] }

\* the overlays an operator sends
XTest == [headers |-> "X-Test: 1"]
ModDicts == {XTest}

\* the JSON bodies POSTed to /api/intercept/forward/<id>: none, or a dict with a
\* 'modifications' key holding null or an overlay
ForwardBodies == {NoneV} \cup { [modifications |-> m] : m \in ModDicts \cup {NoneV} }

\* ?limit=: absent (<<>>) or an integer (<<k>>)
LimitArgs == {<<>>} \cup { <<k>> : k \in -1..MaxLimit }

\* the data of a 'request_history' event: no 'limit' key, or a 'limit' key holding
\* null (<<>>) or an integer (<<k>>)
HistoryData == {EmptyDict} \cup { [limit |-> a] : a \in LimitArgs }

----------------------------------------------------------------------------
(* RequestStore: each operator is one method body, run under self._lock *)

\* add_request: the record stored for request_data
add_request(request_data) ==
    [ id          |-> id_counter + 1,
      captured_at |-> now + 1,
      method      |-> request_data.method,
      host        |-> request_data.host,
      intercepted |-> request_data.intercepted ]

\* get_all_requests slicing from the front: self.requests[:limit]
get_all_requests_oldest(limit) ==
    IF limit # <<>> /\ limit[1] # 0
    THEN Reversed(SubSeq(requests, 1, Min(Max(limit[1], 0), Len(requests))))
    ELSE Reversed(requests)

\* get_all_requests(limit): limit is <<>> (None) or <<k>>
get_all_requests(limit) ==
    IF limit # <<>> /\ limit[1] # 0
    THEN Reversed(SliceFrom(requests, -limit[1]))
    ELSE Reversed(requests)

\* get_request(request_id)
get_request(request_id) ==
    IF \E i \in 1..Len(requests) : requests[i].id = request_id
    THEN LET i == CHOOSE i \in 1..Len(requests) :
                    /\ requests[i].id = request_id
                    /\ \A j \in 1..(i-1) : requests[j].id # request_id
         IN  requests[i]
    ELSE NoneV

\* req.get('method', 'UNKNOWN'), req.get('host', 'unknown')
MethodOf(req) == DictGet(req, "method", "UNKNOWN")
HostOf(req) == DictGet(req, "host", "unknown")

\* the counting loop of get_stats: key -> number of entries with that key
CountBy(keys) ==
    [ k \in { keys[i] : i \in 1..Len(keys) } |->
        Cardinality({ i \in 1..Len(keys) : keys[i] = k }) ]

MethodsOfLog == [i \in 1..Len(requests) |-> MethodOf(requests[i])]
HostsOfLog == [i \in 1..Len(requests) |-> HostOf(requests[i])]

\* get_stats reporting the oldest entry as most_recent: self.requests[0]
get_stats_oldest ==
    [ total       |-> Len(requests),
      by_method   |-> CountBy(MethodsOfLog),
      by_host     |-> CountBy(HostsOfLog),
      most_recent |-> IF requests # <<>> THEN requests[1] ELSE NoneV ]

\* get_stats()
get_stats ==
    [ total       |-> Len(requests),
      by_method   |-> CountBy(MethodsOfLog),
      by_host     |-> CountBy(HostsOfLog),
      most_recent |-> IF requests # <<>> THEN requests[Len(requests)] ELSE NoneV ]

\* add_to_intercept_queue(request_data): the queue afterwards
add_to_intercept_queue(request_data) ==
    IF ~InList(request_data, intercept_queue)
    THEN Append(intercept_queue, request_data)
    ELSE intercept_queue

\* get_next_intercepted_request returning the newest entry
get_next_intercepted_request_newest ==
    IF intercept_queue # <<>> THEN intercept_queue[Len(intercept_queue)] ELSE NoneV

\* get_next_intercepted_request()
get_next_intercepted_request ==
    IF intercept_queue # <<>> THEN intercept_queue[1] ELSE NoneV

\* set_intercept_decision storing no overlay
NewDecision_no_overlay(action, modifications) ==
    [ action        |-> action,
      modifications |-> EmptyDict,
      timestamp     |-> now + 1 ]

\* set_intercept_decision: the decision stored
NewDecision(action, modifications) ==
    [ action        |-> action,
      modifications |-> OrEmpty(modifications),
      timestamp     |-> now + 1 ]

\* set_intercept_decision popping the head of the queue: self.intercept_queue.pop(0)
QueueWithout_pop_head(request_id) ==
    IF intercept_queue # <<>> THEN Tail(intercept_queue) ELSE intercept_queue

\* set_intercept_decision: the queue afterwards
QueueWithout(request_id) == WithoutId(intercept_queue, request_id)

\* get_intercept_decision answering only while interception is enabled
get_intercept_decision_if_enabled(request_id) ==
    IF intercept_enabled /\ request_id \in DOMAIN intercept_decisions
    THEN intercept_decisions[request_id]
    ELSE NoneV

\* get_intercept_decision(request_id): self.intercept_decisions.get(request_id)
get_intercept_decision(request_id) ==
    IF request_id \in DOMAIN intercept_decisions
    THEN intercept_decisions[request_id]
    ELSE NoneV

\* clear_intercept_decision(request_id): the table afterwards
clear_intercept_decision(request_id) ==
    [ i \in DOMAIN intercept_decisions \ {request_id} |-> intercept_decisions[i] ]

----------------------------------------------------------------------------
(* History *)

Did(op, id, arg, ret, aux) ==
    [op |-> op, id |-> id, arg |-> arg, ret |-> ret, aux |-> aux]

\* the timestamps of the decisions that polls have read and not yet returned (a
\* decision no poll holds is out of the table or will be read afresh, and
\* set_intercept_decision stamps every decision with a new reading of the clock)
Held(p, l) == { l[t].decision.timestamp : t \in { u \in DOMAIN p : p[u] = "decision_clear" } }

----------------------------------------------------------------------------
Init ==
    /\ requests = <<>>
    /\ id_counter = 0
    /\ intercept_enabled = FALSE
    /\ intercept_queue = <<>>
    /\ intercept_decisions = EmptyDict
    /\ now = 0
    /\ pc = [t \in Threads |-> "idle"]
    /\ loc = [t \in Threads |-> NoneV]
    /\ returned = {}
    /\ last = Did("init", 0, NoneV, NoneV, 0)
    /\ repeater = [history |-> <<>>, id_counter |-> 0]
    /\ held_decision = "none"
    /\ agent = [request_count |-> 0, pc |-> "idle", intercept_enabled |-> FALSE,
                request_data |-> NoneV, flow |-> NoneV, elapsed |-> 0]

----------------------------------------------------------------------------
(* Handlers of src/app.py *)

Idle(t) == pc[t] = "idle"

\* POST /api/requests/capture, first locked call: add_request.  A request that is
\* not marked intercepted is done here (the get_stats() that follows only feeds
\* the stats_update event).  An empty body is answered 400 and changes nothing.
capture_request(t, request_data) ==
    /\ Idle(t)
    /\ now < MaxClock
    /\ LET req == add_request(request_data) IN
        /\ requests' = Append(requests, req)
        /\ id_counter' = id_counter + 1
        /\ now' = now + 1
        /\ IF req.intercepted
           THEN /\ pc' = [pc EXCEPT ![t] = "capture_enqueue"]
                /\ loc' = [loc EXCEPT ![t] = [request_data |-> req, req_id |-> req.id]]
           ELSE UNCHANGED <<pc, loc>>
        /\ last' = Did("add_request", req.id, request_data, req.id, 0)
    /\ UNCHANGED <<intercept_enabled, intercept_queue, intercept_decisions, returned>>
    /\ UNCHANGED <<agent, repeater, held_decision>>

\* POST /api/requests/capture, second locked call: add_to_intercept_queue, then
\* the response {'status': 'ok', 'id': req_id}
capture_enqueue(t) ==
    /\ pc[t] = "capture_enqueue"
    /\ intercept_queue' = add_to_intercept_queue(loc[t].request_data)
    /\ pc' = [pc EXCEPT ![t] = "idle"]
    /\ loc' = [loc EXCEPT ![t] = NoneV]
    /\ last' = Did("add_to_intercept_queue", loc[t].req_id, loc[t].request_data,
                   loc[t].req_id, 0)
    /\ UNCHANGED <<requests, id_counter, intercept_enabled, intercept_decisions,
                   now, returned>>
    /\ UNCHANGED <<agent, repeater, held_decision>>

\* GET /api/requests?limit=; arg is the limit handed to the store
get_requests(arg) ==
    /\ LET limit == IF arg = <<>> THEN <<DefaultLimit>> ELSE arg
           reqs  == get_all_requests(limit)
       IN  last' = Did("get_requests", 0, limit, [requests |-> reqs, total |-> Len(reqs)], 0)
    /\ UNCHANGED <<store, now, pc, loc, returned>>
    /\ UNCHANGED <<agent, repeater, held_decision>>

\* the 'request_history' socket event; arg is the limit handed to the store
handle_request_history(data) ==
    /\ LET limit == DictGet(data, "limit", <<HistoryLimit>>)
           reqs  == get_all_requests(limit)
       IN  last' = Did("request_history", 0, limit, [requests |-> reqs, total |-> Len(reqs)], 0)
    /\ UNCHANGED <<store, now, pc, loc, returned>>
    /\ UNCHANGED <<agent, repeater, held_decision>>

\* GET /api/requests/<id>
get_request_by_id(request_id) ==
    /\ last' = Did("get_request", request_id, NoneV, get_request(request_id), 0)
    /\ UNCHANGED <<store, now, pc, loc, returned>>
    /\ UNCHANGED <<agent, repeater, held_decision>>

\* clear() that leaves the id counter alone
clear_requests_keeps_counter ==
    /\ requests' = <<>>
    /\ last' = Did("clear", 0, NoneV, NoneV, 0)
    /\ UNCHANGED <<id_counter, intercept_enabled, intercept_queue, intercept_decisions,
                   now, pc, loc, returned>>
    /\ UNCHANGED <<agent, repeater, held_decision>>

\* POST /api/requests/clear: RequestStore.clear(); the get_stats() that follows
\* only feeds the stats_update event
clear_requests ==
    /\ requests' = <<>>
    /\ id_counter' = 0
    /\ last' = Did("clear", 0, NoneV, NoneV, 0)
    /\ UNCHANGED <<intercept_enabled, intercept_queue, intercept_decisions,
                   now, pc, loc, returned>>
    /\ UNCHANGED <<agent, repeater, held_decision>>

\* GET /api/proxy/status: RequestStore.get_stats()
proxy_status ==
    /\ last' = Did("get_stats", 0, NoneV, get_stats, 0)
    /\ UNCHANGED <<store, now, pc, loc, returned>>
    /\ UNCHANGED <<agent, repeater, held_decision>>

\* enable_intercept as a toggle
enable_intercept_toggles ==
    /\ intercept_enabled' = ~intercept_enabled
    /\ last' = Did("enable", 0, NoneV, NoneV, IF last.op = "enable" THEN 1 ELSE 0)
    /\ UNCHANGED <<requests, id_counter, intercept_queue, intercept_decisions,
                   now, pc, loc, returned>>
    /\ UNCHANGED <<agent, repeater, held_decision>>

\* POST /api/intercept/enable; aux is 1 when the step before was an enable too
enable_intercept ==
    /\ intercept_enabled' = TRUE
    /\ last' = Did("enable", 0, NoneV, NoneV, IF last.op = "enable" THEN 1 ELSE 0)
    /\ UNCHANGED <<requests, id_counter, intercept_queue, intercept_decisions,
                   now, pc, loc, returned>>
    /\ UNCHANGED <<agent, repeater, held_decision>>

\* disable_intercept without the intercept_decisions.clear()
disable_intercept_keeps_decisions ==
    /\ intercept_enabled' = FALSE
    /\ last' = Did("disable", 0, NoneV, NoneV, Cardinality(DOMAIN intercept_decisions))
    /\ UNCHANGED <<requests, id_counter, intercept_queue, intercept_decisions,
                   now, pc, loc, returned>>
    /\ UNCHANGED <<agent, repeater, held_decision>>

\* POST /api/intercept/disable; aux is the number of decisions it discarded
disable_intercept ==
    /\ intercept_enabled' = FALSE
    /\ intercept_decisions' = EmptyDict
    /\ last' = Did("disable", 0, NoneV, NoneV, Cardinality(DOMAIN intercept_decisions))
    /\ UNCHANGED <<requests, id_counter, intercept_queue, now, pc, loc, returned>>
    /\ UNCHANGED <<agent, repeater, held_decision>>

\* GET /api/intercept/check
check_intercept ==
    /\ last' = Did("check_intercept", 0, NoneV, [enabled |-> intercept_enabled], 0)
    /\ UNCHANGED <<store, now, pc, loc, returned>>
    /\ UNCHANGED <<agent, repeater, held_decision>>

\* GET /api/intercept/queue
get_intercept_queue ==
    /\ last' = Did("get_intercept_queue", 0, NoneV,
                   [queue |-> intercept_queue, length |-> Len(intercept_queue)], 0)
    /\ UNCHANGED <<store, now, pc, loc, returned>>
    /\ UNCHANGED <<agent, repeater, held_decision>>

\* GET /api/intercept/next
get_next_intercepted ==
    /\ last' = Did("get_next_intercepted", 0, NoneV, get_next_intercepted_request, 0)
    /\ UNCHANGED <<store, now, pc, loc, returned>>
    /\ UNCHANGED <<agent, repeater, held_decision>>

\* set_intercept_decision keeping the decision an id already has
set_intercept_decision_keeps_first(op, request_id, action, modifications, arg) ==
    /\ now < MaxClock
    /\ intercept_decisions' =
          [ i \in DOMAIN intercept_decisions \cup {request_id} |->
              IF i \in DOMAIN intercept_decisions THEN intercept_decisions[i]
              ELSE NewDecision(action, modifications) ]
    /\ intercept_queue' = QueueWithout(request_id)
    /\ now' = now + 1
    /\ last' = Did(op, request_id, arg, get_intercept_decision(request_id),
                   Len(intercept_queue) - Len(QueueWithout(request_id)))
    /\ UNCHANGED <<requests, id_counter, intercept_enabled, pc, loc, returned>>
    /\ held_decision' = IF agent.pc = "poll" /\ agent.request_count = request_id
                        THEN action ELSE held_decision
    /\ UNCHANGED <<agent, repeater>>

\* RequestStore.set_intercept_decision, as the two decision handlers call it;
\* ret is the decision it replaced (None when the id had none), aux the number
\* of queue entries it removed
set_intercept_decision(op, request_id, action, modifications, arg) ==
    /\ now < MaxClock
    /\ intercept_decisions' =
          [ i \in DOMAIN intercept_decisions \cup {request_id} |->
              IF i = request_id THEN NewDecision(action, modifications)
              ELSE intercept_decisions[i] ]
    /\ intercept_queue' = QueueWithout(request_id)
    /\ now' = now + 1
    /\ last' = Did(op, request_id, arg, get_intercept_decision(request_id),
                   Len(intercept_queue) - Len(QueueWithout(request_id)))
    /\ UNCHANGED <<requests, id_counter, intercept_enabled, pc, loc, returned>>
    /\ held_decision' = IF agent.pc = "poll" /\ agent.request_count = request_id
                        THEN action ELSE held_decision
    /\ UNCHANGED <<agent, repeater>>

\* POST /api/intercept/forward/<id>
forward_request(request_id, body) ==
    LET data == OrEmpty(body)
        modifications == DictGet(data, "modifications", EmptyDict)
    IN  set_intercept_decision("forward", request_id, "forward", modifications, body)

\* POST /api/intercept/drop/<id>
drop_request(request_id) ==
    set_intercept_decision("drop", request_id, "drop", NoneV, NoneV)

\* GET /api/intercept/decision/<id>, first locked call: get_intercept_decision.
\* With no decision the handler answers {'action': 'pending'}.
get_decision(t, request_id) ==
    /\ Idle(t)
    /\ LET decision == get_intercept_decision(request_id) IN
        IF Truthy(decision)
        THEN /\ pc' = [pc EXCEPT ![t] = "decision_clear"]
             /\ loc' = [loc EXCEPT ![t] = [request_id |-> request_id, decision |-> decision]]
             /\ last' = Did("get_intercept_decision", request_id, NoneV, decision, 0)
        ELSE /\ UNCHANGED <<pc, loc>>
             /\ last' = Did("get_decision", request_id, NoneV, [action |-> "pending"], 0)
    /\ UNCHANGED <<store, now, returned>>
    /\ UNCHANGED <<agent, repeater, held_decision>>

\* GET /api/intercept/decision/<id>, second locked call: clear_intercept_decision,
\* then the response: the decision read by the first call
get_decision_clear(t) ==
    /\ pc[t] = "decision_clear"
    /\ intercept_decisions' = clear_intercept_decision(loc[t].request_id)
    /\ pc' = [pc EXCEPT ![t] = "idle"]
    /\ loc' = [loc EXCEPT ![t] = NoneV]
    /\ returned' = (returned \cup {loc[t].decision.timestamp}) \cap Held(pc', loc')
    /\ last' = Did("get_decision", loc[t].request_id, NoneV, loc[t].decision,
                   IF loc[t].decision.timestamp \in returned THEN 1 ELSE 0)
    /\ UNCHANGED <<requests, id_counter, intercept_enabled, intercept_queue, now>>
    /\ UNCHANGED <<agent, repeater, held_decision>>

----------------------------------------------------------------------------
(* The capture agent, src/capture_addon.py.  request(flow) is a synchronous  *)
(* mitmproxy hook: the agent handles one flow at a time.  Each call of the   *)
(* coordinator is one step whose answer is any answer an HTTP peer can give  *)
(* or a failure (urlopen or json.loads raising).  Times are in milliseconds. *)

\* s.encode('utf-8') of a str s
Encode(s) == [utf8 |-> s]

\* content.decode('utf-8', errors='ignore') if content else None
DecodeOrNone(b) == IF b.utf8 = "" THEN NoneV ELSE [str |-> b.utf8]

\* a call of the coordinator that raised
Failure == [failure |-> TRUE]

\* the requests that reach the proxy: flow.request
Flows ==
    { [method |-> "GET", path |-> "/", host |-> "example.com",
       headers |-> ("Host" :> "example.com"), content |-> Encode("")],
      [method |-> "POST", path |-> "/login", host |-> "example.com",
       headers |-> ("Host" :> "example.com") @@ ("Cookie" :> "a=1"),
       content |-> Encode("user=a")] }

\* the overlays a decision carries: any subset of method, path, headers, content
OverlayValues ==
    [method |-> "PUT", path |-> "/admin", headers |-> ("X-Test" :> "1"),
     content |-> "user=b"]
Overlays == { [k \in S |-> OverlayValues[k]] : S \in SUBSET DOMAIN OverlayValues }

\* the answers to GET /api/intercept/check
CheckAnswers == {Failure, EmptyDict, [enabled |-> TRUE], [enabled |-> FALSE]}

\* the answers to GET /api/intercept/decision/<id>
PollAnswers ==
    {Failure, EmptyDict, [action |-> "pending"], [action |-> "hold"],
     [action |-> "forward"]}
    \cup { [action |-> a, modifications |-> m] : a \in {"forward", "drop"}, m \in Overlays }

\* decision.get('action') == a
ActionIs(answer, a) ==
    /\ answer # Failure
    /\ "action" \in DOMAIN answer
    /\ answer.action = a

\* headers.clear()
headers_clear(headers) == EmptyDict

\* for key, value in new.items(): headers[key] = value
headers_set_items(headers, new) == new @@ headers

\* lines 89-99 with headers merged into the set instead of replacing it
apply_modifications_merges_headers(request, modifications) ==
    LET r1 == IF "method" \in DOMAIN modifications
              THEN [request EXCEPT !.method = modifications.method] ELSE request
        r2 == IF "path" \in DOMAIN modifications
              THEN [r1 EXCEPT !.path = modifications.path] ELSE r1
        r3 == IF "headers" \in DOMAIN modifications
              THEN [r2 EXCEPT !.headers = headers_set_items(r2.headers, modifications.headers)]
              ELSE r2
    IN  IF "content" \in DOMAIN modifications
        THEN [r3 EXCEPT !.content = Encode(modifications.content)] ELSE r3

\* lines 89-99: the overlay applied to flow.request
apply_modifications(request, modifications) ==
    LET r1 == IF "method" \in DOMAIN modifications
              THEN [request EXCEPT !.method = modifications.method] ELSE request
        r2 == IF "path" \in DOMAIN modifications
              THEN [r1 EXCEPT !.path = modifications.path] ELSE r1
        r3 == IF "headers" \in DOMAIN modifications
              THEN [r2 EXCEPT !.headers =
                        headers_set_items(headers_clear(r2.headers), modifications.headers)]
              ELSE r2
    IN  IF "content" \in DOMAIN modifications
        THEN [r3 EXCEPT !.content = Encode(modifications.content)] ELSE r3

\* lines 85-101: action == 'forward': apply the overlay, break
on_forward(a, decision) ==
    [a EXCEPT !.flow.request =
                  apply_modifications(@, DictGet(decision, "modifications", EmptyDict)),
              !.pc = "idle"]

\* the drop branch forwarding instead of killing
on_drop_no_kill(a) == [a EXCEPT !.pc = "idle"]

\* lines 102-105: action == 'drop': flow.kill(), break
on_drop(a) == [a EXCEPT !.flow.killed = TRUE, !.pc = "idle"]

\* the loop test with the bound included
loop_test_inclusive(elapsed) == elapsed <= MaxWaitMs

\* line 75: while elapsed < max_wait
loop_test(elapsed) == elapsed < MaxWaitMs

\* the end of an iteration killing the flow when the wait is over
sleep_and_loop_kills_on_timeout(a) ==
    LET e == a.elapsed + PollIntervalMs IN
    [a EXCEPT !.elapsed = e,
              !.pc = IF loop_test(e) THEN "poll" ELSE "idle",
              !.flow.killed = ~loop_test(e)]

\* lines 111-112 and 75: time.sleep(poll_interval), elapsed += poll_interval, and
\* the loop test that follows
sleep_and_loop(a) ==
    LET e == a.elapsed + PollIntervalMs IN
    [a EXCEPT !.elapsed = e, !.pc = IF loop_test(e) THEN "poll" ELSE "idle"]

\* the except branch leaving the loop
on_exception_breaks(a) == [a EXCEPT !.pc = "idle"]

\* lines 107-109: except Exception: pass, then the end of the iteration
on_exception(a) == sleep_and_loop(a)

\* lines 23-37: count the request and describe it; ret is the request as it
\* arrived, kept through the agent's steps
request(f) ==
    /\ agent.pc = "idle"
    /\ agent.request_count < MaxFlows
    /\ LET count == agent.request_count + 1 IN
        /\ agent' = [request_count |-> count,
                     pc |-> "check",
                     intercept_enabled |-> FALSE,
                     request_data |->
                        [id |-> count, method |-> f.method, host |-> f.host,
                         path |-> f.path, headers |-> f.headers,
                         content |-> DecodeOrNone(f.content), status |-> "pending"],
                     flow |-> [request |-> f, killed |-> FALSE],
                     elapsed |-> 0]
        /\ last' = Did("request", count, NoneV, f, 0)
    /\ held_decision' = "none"
    /\ UNCHANGED <<store, now, pc, loc, returned, repeater>>

\* lines 39-52: ask the coordinator whether interception is on; mark the request
check(answer) ==
    /\ agent.pc = "check"
    /\ LET enabled == IF answer = Failure THEN FALSE
                      ELSE DictGet(answer, "enabled", FALSE)
       IN  agent' = [agent EXCEPT
                        !.pc = "submit",
                        !.intercept_enabled = enabled,
                        !.request_data = IF enabled THEN ("intercepted" :> TRUE) @@ @
                                         ELSE @]
    /\ last' = Did("check", agent.request_count, answer, agent.flow.request, 0)
    /\ UNCHANGED <<store, now, pc, loc, returned, repeater, held_decision>>

\* lines 54-73: POST the request to the coordinator, ignoring the outcome; enter
\* the wait when interception was on
submit(ok) ==
    /\ agent.pc = "submit"
    /\ agent' = [agent EXCEPT !.pc = IF agent.intercept_enabled THEN "poll" ELSE "idle",
                              !.elapsed = 0]
    /\ last' = Did("submit", agent.request_count, [ok |-> ok], agent.flow.request, 0)
    /\ UNCHANGED <<store, now, pc, loc, returned, repeater, held_decision>>

\* lines 75-112: one iteration of the wait: poll the decision of request_count,
\* act on it, sleep; aux counts the polls made for this request (elapsed grows by
\* one interval per poll)
poll(answer) ==
    /\ agent.pc = "poll"
    /\ agent' = IF answer = Failure THEN on_exception(agent)
                ELSE IF ActionIs(answer, "forward") THEN on_forward(agent, answer)
                ELSE IF ActionIs(answer, "drop") THEN on_drop(agent)
                ELSE sleep_and_loop(agent)
    /\ last' = Did("poll", agent.request_count, answer, agent.flow.request,
                   agent.elapsed \div PollIntervalMs + 1)
    /\ UNCHANGED <<store, now, pc, loc, returned, repeater, held_decision>>

-----------------------------------------------------------------------------
(* The repeater, src/app.py 274-363.  The store's repeater methods are not   *)
(* in src/storage.py; they are taken from the replay history of the          *)
(* specification: a log of entries with its own id counter and its own clear. *)

\* the JSON bodies POSTed to /api/repeater/send
RepeaterBodies ==
    { NoneV, EmptyDict,
      [method |-> "GET"],
      [method |-> "GET", url |-> ""],
      [url |-> "http://example.com/"],
      [method |-> "POST", url |-> "http://example.com/login", body |-> "user=a"] }

\* what requests.request does: returns a response or raises a RequestException
Outcomes == {"response", "RequestException"}

\* response_data (lines 304-310) and error_response (lines 326-329)
response_data == [status_code |-> 200, body |-> "ok"]
error_response == [error |-> "connection refused", error_type |-> "ConnectionError"]

\* add_repeater_request(request, response): the history it leaves
add_repeater_request(req, response) ==
    [history |-> Append(repeater.history,
                        [id |-> repeater.id_counter + 1, request |-> req,
                         response |-> response, timestamp |-> now + 1]),
     id_counter |-> repeater.id_counter + 1]

\* get_repeater_history(limit)
get_repeater_history_of(limit) ==
    IF limit # <<>> /\ limit[1] # 0
    THEN Reversed(SliceFrom(repeater.history, -limit[1]))
    ELSE Reversed(repeater.history)

\* get_repeater_entry(entry_id)
get_repeater_entry_of(entry_id) ==
    IF \E i \in 1..Len(repeater.history) : repeater.history[i].id = entry_id
    THEN LET i == CHOOSE i \in 1..Len(repeater.history) :
                        repeater.history[i].id = entry_id
         IN  repeater.history[i]
    ELSE NoneV

\* send_repeater_request recording nothing when the outbound call failed
send_repeater_request_drops_failures(data, outcome) ==
    /\ IF ~Truthy(data)
       THEN /\ last' = Did("repeater_send", 0, data, [status |-> 400], 0)
            /\ UNCHANGED <<repeater, now>>
       ELSE IF "url" \notin DOMAIN data \/ data.url = ""
       THEN /\ last' = Did("repeater_send", 0, data, [status |-> 400], 0)
            /\ UNCHANGED <<repeater, now>>
       ELSE IF outcome = "response"
       THEN /\ now < MaxClock
            /\ repeater' = add_repeater_request(data, response_data)
            /\ now' = now + 1
            /\ last' = Did("repeater_send", repeater'.id_counter, data,
                           [status |-> 200, id |-> repeater'.id_counter], 1)
       ELSE /\ last' = Did("repeater_send", 0, data, [status |-> 500, id |-> 0], 2)
            /\ UNCHANGED <<repeater, now>>
    /\ UNCHANGED <<store, pc, loc, returned, agent, held_decision>>

\* POST /api/repeater/send; aux is 0 for a rejected body, 1 for a recorded
\* response, 2 for a recorded error
send_repeater_request(data, outcome) ==
    /\ IF ~Truthy(data)
       THEN /\ last' = Did("repeater_send", 0, data, [status |-> 400], 0)
            /\ UNCHANGED <<repeater, now>>
       ELSE IF "url" \notin DOMAIN data \/ data.url = ""
       THEN /\ last' = Did("repeater_send", 0, data, [status |-> 400], 0)
            /\ UNCHANGED <<repeater, now>>
       ELSE /\ now < MaxClock
            /\ repeater' = add_repeater_request(
                               data, IF outcome = "response" THEN response_data
                                     ELSE error_response)
            /\ now' = now + 1
            /\ last' = IF outcome = "response"
                       THEN Did("repeater_send", repeater'.id_counter, data,
                                [status |-> 200, id |-> repeater'.id_counter], 1)
                       ELSE Did("repeater_send", repeater'.id_counter, data,
                                [status |-> 500, id |-> repeater'.id_counter], 2)
    /\ UNCHANGED <<store, pc, loc, returned, agent, held_decision>>

\* GET /api/repeater/history?limit=
get_repeater_history(arg) ==
    /\ LET limit   == IF arg = <<>> THEN <<RepeaterLimit>> ELSE arg
           history == get_repeater_history_of(limit)
       IN  last' = Did("repeater_history", 0, limit,
                       [history |-> history, total |-> Len(history)], 0)
    /\ UNCHANGED <<store, now, pc, loc, returned, agent, repeater, held_decision>>

\* GET /api/repeater/history/<id>
get_repeater_entry(entry_id) ==
    /\ last' = Did("repeater_entry", entry_id, NoneV, get_repeater_entry_of(entry_id), 0)
    /\ UNCHANGED <<store, now, pc, loc, returned, agent, repeater, held_decision>>

\* POST /api/repeater/history/clear
clear_repeater_history ==
    /\ repeater' = [history |-> <<>>, id_counter |-> 0]
    /\ last' = Did("repeater_clear", 0, NoneV, NoneV, Len(repeater.history))
    /\ UNCHANGED <<store, now, pc, loc, returned, agent, held_decision>>

-----------------------------------------------------------------------------
\* the handlers that change the store, on concurrent threads
Next ==
    \/ \E t \in Threads, d \in CaptureBodies : capture_request(t, d)
    \/ \E t \in Threads : capture_enqueue(t)
    \/ clear_requests
    \/ enable_intercept
    \/ disable_intercept
    \/ \E i \in ReqIds, b \in ForwardBodies : forward_request(i, b)
    \/ \E i \in ReqIds : drop_request(i)
    \/ \E t \in Threads, i \in ReqIds : get_decision(t, i)
    \/ \E t \in Threads : get_decision_clear(t)

Spec == Init /\ [][Next]_vars

\* the intercept queue: what fills it, what empties it and the reads of it
NextQueue ==
    \/ \E t \in Threads, d \in CaptureBodies : capture_request(t, d)
    \/ \E t \in Threads : capture_enqueue(t)
    \/ clear_requests
    \/ enable_intercept
    \/ disable_intercept
    \/ check_intercept
    \/ get_intercept_queue
    \/ get_next_intercepted
    \/ \E i \in ReqIds, b \in ForwardBodies : forward_request(i, b)
    \/ \E i \in ReqIds : drop_request(i)

SpecQueue == Init /\ [][NextQueue]_vars

\* the intercept queue with the polls of the decisions as well
NextAll ==
    \/ Next
    \/ check_intercept
    \/ get_intercept_queue
    \/ get_next_intercepted

SpecAll == Init /\ [][NextAll]_vars

\* the request log: ingest, clear and the reads of the log
NextLog ==
    \/ \E t \in Threads, d \in LogBodies : capture_request(t, d)
    \/ clear_requests
    \/ \E a \in LimitArgs : get_requests(a)
    \/ \E d \in HistoryData : handle_request_history(d)
    \/ \E i \in ReqIds : get_request_by_id(i)
    \/ proxy_status

SpecLog == Init /\ [][NextLog]_vars

\* the capture agent against any coordinator
NextAgent ==
    \/ \E f \in Flows : request(f)
    \/ \E answer \in CheckAnswers : check(answer)
    \/ \E ok \in BOOLEAN : submit(ok)
    \/ \E answer \in PollAnswers : poll(answer)

SpecAgent == Init /\ [][NextAgent]_vars

\* the repeater and its history
NextRepeater ==
    \/ \E data \in RepeaterBodies, outcome \in Outcomes : send_repeater_request(data, outcome)
    \/ \E arg \in LimitArgs : get_repeater_history(arg)
    \/ \E entry_id \in ReqIds : get_repeater_entry(entry_id)
    \/ clear_repeater_history

SpecRepeater == Init /\ [][NextRepeater]_vars

\* the agent and the coordinator together.  The agent's calls are served by the
\* handlers above; a call or its response can be lost (urlopen raising).  A
\* response that a handler has produced is taken up, or lost, in the next step.

\* the agent makes one call at a time: its submissions are served on one thread
\* of the threaded server and its polls on another
CaptureThread == 1
PollThread == 2

\* the body the agent POSTs to /api/requests/capture, as the store reads it
CaptureBody(request_data) ==
    [method |-> request_data.method, host |-> request_data.host,
     intercepted |-> "intercepted" \in DOMAIN request_data]

\* capture_request has served the agent's submission (ingested it and, when it
\* is marked intercepted, enqueued it) and the agent has not yet gone on
CaptureAnswered ==
    \/ last.op = "add_to_intercept_queue"
    \/ last.op = "add_request" /\ pc[CaptureThread] = "idle"

\* get_decision has produced a decision that is on its way to the agent
DecisionAnswered == last.op = "get_decision" /\ last.ret # [action |-> "pending"]

\* no response is on its way to the agent
Quiet == ~CaptureAnswered /\ ~DecisionAnswered

\* a handler holds the decision the agent's poll asked for
PollBusy == pc[PollThread] = "decision_clear"

\* the flows the agent meets while the coordinator runs
SystemFlows == {f \in Flows : f.method = "GET"}

\* the ids of the entries in the intercept queue
QueueIds == { intercept_queue[i].id : i \in 1..Len(intercept_queue) }

\* the operator decides on the entries the queue shows
NextSystem ==
    \/ \E f \in SystemFlows : Quiet /\ request(f)
    \/ \E answer \in {Failure, [enabled |-> intercept_enabled]} : Quiet /\ check(answer)
    \/ /\ Quiet /\ agent.pc = "submit" /\ last.op # "add_request"
       /\ capture_request(CaptureThread, CaptureBody(agent.request_data))
    \/ \E ok \in BOOLEAN : ~DecisionAnswered /\ (ok => CaptureAnswered) /\ submit(ok)
    \/ Quiet /\ capture_enqueue(CaptureThread)
    \/ /\ Quiet /\ ~PollBusy
       /\ ~Truthy(get_intercept_decision(agent.request_count))
       /\ poll([action |-> "pending"])
    \/ Quiet /\ ~PollBusy /\ poll(Failure)
    \/ /\ Quiet /\ ~PollBusy /\ agent.pc = "poll"
       /\ Truthy(get_intercept_decision(agent.request_count))
       /\ get_decision(PollThread, agent.request_count)
    \/ Quiet /\ get_decision_clear(PollThread)
    \/ \E lost \in BOOLEAN : DecisionAnswered /\ poll(IF lost THEN Failure ELSE last.ret)
    \/ Quiet /\ enable_intercept
    \/ Quiet /\ disable_intercept
    \/ Quiet /\ clear_requests
    \/ \E i \in QueueIds : Quiet /\ forward_request(i, NoneV)
    \/ \E i \in QueueIds : Quiet /\ drop_request(i)

SpecSystem == Init /\ [][NextSystem]_vars

----------------------------------------------------------------------------
(* Steps, as the properties name them *)

Pending == [action |-> "pending"]

\* this step is the first locked call of a poll for request_id
PollReads(request_id) ==
    /\ last'.id = request_id
    /\ \/ last'.op = "get_intercept_decision"
       \/ last'.op = "get_decision" /\ pc' = pc

\* this step is a decide (forward or drop)
Decides == last'.op \in {"forward", "drop"}

\* the overlay a forward body carries: its 'modifications', none when the body or
\* the key is missing or null
GivenMods(body) ==
    IF body # NoneV /\ "modifications" \in DOMAIN body /\ body.modifications # NoneV
    THEN body.modifications
    ELSE EmptyDict

----------------------------------------------------------------------------
(* C1 *)

\* C1: for every request id and every decision recorded by decide, at most one
\* poll (GET /api/intercept/decision/<id>) returns that decision, under any
\* interleaving of concurrent polls for the id: no poll returns a decision that
\* an earlier poll has already returned.
C1_OneShotConsumption ==
    ~(last.op = "get_decision" /\ last.ret # Pending /\ last.aux = 1)

(* C2 *)

\* C2: sequentially, decide(id, forward, mods) followed by resolve(id) returns
\* action forward with exactly those modifications, and the next resolve(id)
\* returns pending.  Step by step: a poll that reads right after the decide reads
\* (forward, mods); a poll returns what it read and leaves no decision for the id;
\* a poll that reads right after a poll returned a decision for the id gets pending.
C2_DecideThenResolve ==
    [][ /\ (last.op = "forward" /\ PollReads(last.id)) =>
              /\ last'.op = "get_intercept_decision"
              /\ last'.ret.action = "forward"
              /\ last'.ret.modifications = GivenMods(last.arg)
        /\ \A t \in Threads :
              (pc[t] = "idle" /\ pc'[t] = "decision_clear") =>
                  /\ loc'[t].request_id = last'.id
                  /\ loc'[t].decision = last'.ret
        /\ \A t \in Threads :
              (pc[t] = "decision_clear" /\ pc'[t] = "idle") =>
                  /\ last'.op = "get_decision"
                  /\ last'.id = loc[t].request_id
                  /\ last'.ret = loc[t].decision
                  /\ last'.id \notin DOMAIN intercept_decisions'
        /\ (last.op = "get_decision" /\ last.ret # Pending /\ PollReads(last.id)) =>
              /\ last'.op = "get_decision"
              /\ last'.ret = Pending
      ]_vars

\* a poll has just returned a forward decision with the overlay X-Test, and the
\* table holds nothing more for the id
C2_Witness ==
    /\ last.op = "get_decision"
    /\ last.ret # Pending
    /\ last.ret.action = "forward"
    /\ last.ret.modifications = XTest
    /\ last.id \notin DOMAIN intercept_decisions

(* C3 *)

\* C3: immediately after decide(id, action), forward or drop, no entry with that
\* id is in the queue, retrieved or not; every other entry remains, in the same
\* relative order.
C3_DecideDequeues ==
    [][ Decides =>
          /\ \A i \in 1..Len(intercept_queue') : intercept_queue'[i].id # last'.id
          /\ intercept_queue' =
                SelectSeq(intercept_queue, LAMBDA req : req.id # last'.id)
      ]_vars

\* a decide has just removed the middle entry of a queue of three; its decision is
\* still in the table
C3_Witness ==
    /\ last.op \in {"forward", "drop"}
    /\ last.aux = 1
    /\ Len(intercept_queue) = 2
    /\ intercept_queue[1].id < last.id
    /\ last.id < intercept_queue[2].id
    /\ last.id \in DOMAIN intercept_decisions

(* C4 *)

\* C4: enqueue deduplicates by request id: enqueueing a request whose id is already
\* in the queue leaves the queue unchanged, whatever record carries the id.
C4_EnqueueDedupById ==
    [][ \A t \in Threads :
          ( /\ pc[t] = "capture_enqueue"
            /\ pc'[t] = "idle"
            /\ loc[t].req_id \in QueueIds ) =>
                intercept_queue' = intercept_queue
      ]_vars

(* C5 *)

\* C5: in every reachable state no two entries of the intercept queue have the
\* same request id.
C5_QueueUnique ==
    \A i, j \in 1..Len(intercept_queue) :
        i # j => intercept_queue[i].id # intercept_queue[j].id

(* C10 *)

\* C10: decide and resolve do not depend on the interception state or on queue
\* membership: in every state, for every id, decide can be taken; it records the
\* decision (action and overlay) for the id; and a poll that reads right after it
\* reads that decision.
C10_DecisionMechanics ==
    /\ [](now < MaxClock =>
            \A i \in ReqIds : ENABLED drop_request(i) /\ ENABLED forward_request(i, NoneV))
    /\ [][ /\ Decides =>
                /\ last'.id \in DOMAIN intercept_decisions'
                /\ intercept_decisions'[last'.id].action = last'.op
                /\ intercept_decisions'[last'.id].modifications = GivenMods(last'.arg)
           /\ (last.op \in {"forward", "drop"} /\ PollReads(last.id)) =>
                /\ last'.op = "get_intercept_decision"
                /\ last'.ret = intercept_decisions[last.id]
                /\ last'.ret.action = last.op
         ]_vars

\* with interception disabled and nothing ever captured, a poll has returned the
\* drop decided for an id the log does not know
C10_Witness ==
    /\ last.op = "get_decision"
    /\ last.ret # Pending
    /\ last.ret.action = "drop"
    /\ ~intercept_enabled
    /\ now = 1
    /\ requests = <<>>
    /\ intercept_queue = <<>>

(* C6 *)

\* C6: in every reachable state the log holds, in ingest order, exactly the ids
\* 1..n (n its length) and the id counter equals n; an ingest returns an id no
\* entry of the log has, the id of the entry it appended; clear() empties the log
\* and resets the counter, so that the next ingest returns 1.
C6_RequestIds ==
    /\ [](/\ id_counter = Len(requests)
          /\ \A i \in 1..Len(requests) : requests[i].id = i
          /\ \A i, j \in 1..Len(requests) :
                i < j => requests[i].captured_at < requests[j].captured_at)
    /\ [][ /\ last'.op = "add_request" =>
                /\ last'.ret \notin { requests[i].id : i \in 1..Len(requests) }
                /\ Len(requests') = Len(requests) + 1
                /\ SubSeq(requests', 1, Len(requests)) = requests
                /\ requests'[Len(requests')].id = last'.ret
           /\ last'.op = "clear" => requests' = <<>> /\ id_counter' = 0
           /\ (last.op = "clear" /\ last'.op = "add_request") => last'.ret = 1
         ]_vars

\* an ingest has just returned id 1 for the second time: the queue still holds the
\* request that had id 1 before the clear
C6_Witness ==
    /\ last.op = "add_request"
    /\ last.ret = 1
    /\ Len(requests) = 1
    /\ requests[1].captured_at > 1
    /\ \E i \in 1..Len(intercept_queue) :
          intercept_queue[i].id = 1 /\ intercept_queue[i].captured_at = 1

(* C7 *)

\* this step lists the log (GET /api/requests, or the request_history event);
\* last'.arg is the limit handed to get_all_requests
Lists == last'.op \in {"get_requests", "request_history"}

\* C7: for a log ingested in order r1..rn and a limit k with 1 <= k < n,
\* list(limit=k) returns exactly [rn, ..., rn-k+1]; with no limit it returns the
\* whole log [rn, ..., r1].
C7_ListMostRecentFirst ==
    [][ Lists =>
          LET n == Len(requests)
              k == last'.arg
          IN  /\ (k # <<>> /\ 1 <= k[1] /\ k[1] < n) =>
                    last'.ret.requests = [i \in 1..k[1] |-> requests[n - i + 1]]
              /\ k = <<>> =>
                    last'.ret.requests = [i \in 1..n |-> requests[n - i + 1]]
      ]_vars

\* a log of three was listed with limit 2: the last two entries, newest first
C7_Witness ==
    /\ last.op = "get_requests"
    /\ last.arg = <<2>>
    /\ Len(requests) = 3
    /\ last.ret.requests = <<requests[3], requests[2]>>

(* C8 *)

\* C8: whenever a limit k >= 0 is given to list (k = 0 included), the result has
\* at most k entries.
C8_AtMostLimit ==
    (last.op \in {"get_requests", "request_history"} /\ last.arg # <<>>) =>
        (last.arg[1] >= 0 => Len(last.ret.requests) <= last.arg[1])

(* C9 *)

RECURSIVE SumOver(_, _)
SumOver(f, S) ==
    IF S = {} THEN 0
    ELSE LET x == CHOOSE x \in S : TRUE IN f[x] + SumOver(f, S \ {x})

\* C9: stats() returns total = the number of entries, by_method[m] = the number
\* of entries with method m, by_host[h] = the number of entries with host h (each
\* grouping sums to total), most_recent = the last ingested entry (none on an
\* empty log); stats() changes no state.
C9_Stats ==
    [][ last'.op = "get_stats" =>
          LET st == last'.ret
              n  == Len(requests)
          IN  /\ st.total = n
              /\ DOMAIN st.by_method = { requests[i].method : i \in 1..n }
              /\ \A m \in DOMAIN st.by_method :
                    st.by_method[m] = Cardinality({ i \in 1..n : requests[i].method = m })
              /\ DOMAIN st.by_host = { requests[i].host : i \in 1..n }
              /\ \A h \in DOMAIN st.by_host :
                    st.by_host[h] = Cardinality({ i \in 1..n : requests[i].host = h })
              /\ SumOver(st.by_method, DOMAIN st.by_method) = st.total
              /\ SumOver(st.by_host, DOMAIN st.by_host) = st.total
              /\ st.most_recent = IF n = 0 THEN NoneV ELSE requests[n]
              /\ store' = store
      ]_vars

\* the stats of the log A (GET example.com), B (POST example.com), C (GET other.com)
C9_Witness ==
    /\ last.op = "get_stats"
    /\ last.ret.total = 3
    /\ last.ret.by_method = [GET |-> 2, POST |-> 1]
    /\ last.ret.by_host = [k \in {"example.com", "other.com"} |->
                              IF k = "example.com" THEN 2 ELSE 1]
    /\ last.ret.most_recent # NoneV
    /\ last.ret.most_recent.host = "other.com"
    /\ last.ret.most_recent.id = 3

-----------------------------------------------------------------------------
(* C11 *)

\* C11: disable() sets interception to disabled and empties the whole decision
\* table, leaving the intercept queue, the request log and the id counter as they
\* were; after it every poll reads pending until a new decide: only a decide adds
\* an id to the decision table, and a poll that reads an id the table does not
\* hold answers pending.
C11_DisableEffect ==
    [][ /\ last'.op = "disable" =>
                /\ intercept_enabled' = FALSE
                /\ intercept_decisions' = EmptyDict
                /\ intercept_queue' = intercept_queue
                /\ requests' = requests
                /\ id_counter' = id_counter
        /\ ~Decides => DOMAIN intercept_decisions' \subseteq DOMAIN intercept_decisions
        /\ \A i \in ReqIds :
              (PollReads(i) /\ i \notin DOMAIN intercept_decisions) =>
                  /\ last'.op = "get_decision"
                  /\ last'.ret = Pending
                  /\ store' = store
      ]_vars

\* disable has just discarded a recorded decision while the queue and the log
\* held entries, and they are still there
C11_Witness ==
    /\ last.op = "disable"
    /\ last.aux >= 1
    /\ intercept_decisions = EmptyDict
    /\ Len(intercept_queue) >= 1
    /\ Len(requests) >= 1
    /\ id_counter >= 1
-----------------------------------------------------------------------------
(* C12 *)

\* C12: interception starts disabled; enable applied right after enable, and
\* disable applied right after disable, leave the whole store as the first
\* application left it; enable sets the flag, disable resets it, no other
\* operation changes it, and isEnabled() returns the flag, so it always equals
\* the effect of the most recent enable/disable.
C12_EnableDisableIdempotent ==
    /\ intercept_enabled = FALSE
    /\ [][ /\ (last.op = "enable" /\ last'.op = "enable") => store' = store
           /\ (last.op = "disable" /\ last'.op = "disable") => store' = store
           /\ last'.op = "enable" => intercept_enabled' = TRUE
           /\ last'.op = "disable" => intercept_enabled' = FALSE
           /\ last'.op \notin {"enable", "disable"} =>
                  intercept_enabled' = intercept_enabled
           /\ last'.op = "check_intercept" =>
                  /\ last'.ret = [enabled |-> intercept_enabled]
                  /\ store' = store
         ]_vars

\* enable has just been applied for the second time in a row, on a store with a
\* queued request and a recorded decision
C12_Witness ==
    /\ last.op = "enable"
    /\ last.aux = 1
    /\ intercept_enabled
    /\ Len(intercept_queue) >= 1
    /\ intercept_decisions # EmptyDict
-----------------------------------------------------------------------------
(* C13 *)

\* the polls one wait can make
MaxPolls == MaxWaitMs \div PollIntervalMs

\* the answer of a poll is a forward or a drop decision
Ends(answer) == ActionIs(answer, "forward") \/ ActionIs(answer, "drop")

C14_DefaultOpen ==
    /\ agent.pc = "poll" =>
            /\ agent.flow.request = last.ret
            /\ agent.flow.killed = FALSE
    /\ (last.op = "poll" /\ ~Ends(last.arg) /\ agent.pc = "idle") =>
            /\ last.aux = MaxPolls
            /\ agent.flow.request = last.ret
            /\ agent.flow.killed = FALSE

\* the wait of a POST request has timed out on a pending answer, and the request
\* proceeds as it arrived
C14_Witness ==
    /\ last.op = "poll"
    /\ last.arg = [action |-> "pending"]
    /\ last.aux = MaxPolls
    /\ agent.pc = "idle"
    /\ agent.flow.request = last.ret
    /\ agent.flow.request.method = "POST"
    /\ agent.flow.killed = FALSE

(* C15 *)

\* C15: a poll that fails does what a poll answering pending does: the request
\* is neither modified nor killed, the poll counts toward the wait (elapsed grows
\* by poll_interval) and the agent keeps polling unless the wait is over; the
\* wait is left only by a poll that returns forward or drop or by the timeout.
C15_FailureIsPending ==
    [][ /\ (last'.op = "poll" /\ last'.arg \in {Failure, [action |-> "pending"]}) =>
                /\ agent'.flow = agent.flow
                /\ agent'.elapsed = agent.elapsed + PollIntervalMs
                /\ agent'.pc = IF agent'.elapsed < MaxWaitMs THEN "poll" ELSE "idle"
                /\ last'.aux * PollIntervalMs = agent'.elapsed
        /\ (agent.pc = "poll" /\ agent'.pc # "poll") =>
                /\ last'.op = "poll"
                /\ Ends(last'.arg) \/ agent'.elapsed >= MaxWaitMs
      ]_vars

\* the second poll of a wait has failed and the agent keeps polling, the request
\* as it arrived
C15_Witness ==
    /\ last.op = "poll"
    /\ last.arg = Failure
    /\ last.aux = 2
    /\ agent.pc = "poll"
    /\ agent.flow = [request |-> last.ret, killed |-> FALSE]

(* C16 *)

\* C16: when a poll returns drop the agent kills the flow and stops polling, and
\* the request is as it arrived, whatever overlay the answer carries.
C16_DropKills ==
    [][ (last'.op = "poll" /\ ActionIs(last'.arg, "drop")) =>
            /\ agent'.flow.killed = TRUE
            /\ agent'.pc = "idle"
            /\ agent'.flow.request = agent.flow.request
            /\ agent'.flow.request = last'.ret
      ]_vars

\* a drop that carried an overlay has killed the flow on its third poll
C16_Witness ==
    /\ last.op = "poll"
    /\ ActionIs(last.arg, "drop")
    /\ DOMAIN last.arg.modifications = {"method", "path", "headers", "content"}
    /\ last.aux = 3
    /\ agent.flow.killed
    /\ agent.flow.request = last.ret
    /\ agent.pc = "idle"

(* C17 *)

-----------------------------------------------------------------------------
(* C18 *)

\* C18: the queue is FIFO and only decide shrinks it: an enqueue leaves the
\* queue as it is or appends one entry at its end, a decide removes the entries of
\* its id and keeps the others in their order, and no other operation (peekNext,
\* listQueue, a poll, enable, disable, isEnabled, ingest, clear) changes the
\* queue; listQueue() returns the queue in that order, peekNext() returns its
\* first entry, none when it is empty, and changes no state.
C18_QueueFifo ==
    [][ /\ last'.op = "add_to_intercept_queue" =>
                \/ intercept_queue' = intercept_queue
                \/ /\ Len(intercept_queue') = Len(intercept_queue) + 1
                   /\ SubSeq(intercept_queue', 1, Len(intercept_queue)) = intercept_queue
        /\ Decides =>
                intercept_queue' = SelectSeq(intercept_queue, LAMBDA e : e.id # last'.id)
        /\ (~Decides /\ last'.op # "add_to_intercept_queue") =>
                intercept_queue' = intercept_queue
        /\ last'.op = "get_intercept_queue" =>
                /\ last'.ret.queue = intercept_queue
                /\ last'.ret.length = Len(intercept_queue)
                /\ UNCHANGED <<store, pc, loc>>
        /\ last'.op = "get_next_intercepted" =>
                /\ last'.ret = IF Len(intercept_queue) = 0 THEN NoneV
                               ELSE Head(intercept_queue)
                /\ UNCHANGED <<store, pc, loc>>
      ]_vars

\* peekNext has returned the older of two queued requests while a decision is
\* recorded
C18_Witness ==
    /\ last.op = "get_next_intercepted"
    /\ Len(intercept_queue) = 2
    /\ last.ret = intercept_queue[1]
    /\ intercept_queue[1].captured_at < intercept_queue[2].captured_at
    /\ intercept_decisions # EmptyDict
-----------------------------------------------------------------------------
(* C19 *)

\* the timestamps of the decisions in a decision table
Stamps(table) == { table[i].timestamp : i \in DOMAIN table }

\* C19: at most one live decision per request id.  A decide leaves for its id
\* exactly the decision it was given, with a timestamp no live decision has, and
\* leaves the other ids' decisions alone; when it follows a decide for the same
\* id, the decision (a1, m1) of the first is gone from the table and no poll holds
\* it; nothing but a decide puts a decision into the table and a poll holds only
\* what it read from the table, so (a1, m1) is never returned; a poll that reads
\* right after the second decide reads (a2, m2), and a poll that returns a
\* decision leaves none for the id, so the next poll reads pending.
C19_OneLiveDecision ==
    [][ /\ Decides =>
                /\ DOMAIN intercept_decisions' = DOMAIN intercept_decisions \cup {last'.id}
                /\ intercept_decisions'[last'.id].action = last'.op
                /\ intercept_decisions'[last'.id].modifications = GivenMods(last'.arg)
                /\ intercept_decisions'[last'.id].timestamp
                        \notin Stamps(intercept_decisions) \cup Held(pc, loc)
                /\ \A i \in DOMAIN intercept_decisions \ {last'.id} :
                        intercept_decisions'[i] = intercept_decisions[i]
        /\ (last.op \in {"forward", "drop"} /\ Decides /\ last'.id = last.id) =>
                LET d1 == intercept_decisions[last.id] IN
                /\ last'.ret = d1
                /\ d1.action = last.op
                /\ d1.timestamp \notin Stamps(intercept_decisions')
                /\ d1.timestamp \notin Held(pc', loc')
        /\ ~Decides => Stamps(intercept_decisions') \subseteq Stamps(intercept_decisions)
        /\ Held(pc', loc') \subseteq Held(pc, loc) \cup Stamps(intercept_decisions)
        /\ (last.op \in {"forward", "drop"} /\ PollReads(last.id)) =>
                /\ last'.op = "get_intercept_decision"
                /\ last'.ret = intercept_decisions[last.id]
                /\ last'.ret.action = last.op
                /\ last'.ret.modifications = GivenMods(last.arg)
        /\ (last'.op = "get_decision" /\ last'.ret # Pending) =>
                /\ last'.ret.timestamp \in Held(pc, loc)
                /\ last'.id \notin DOMAIN intercept_decisions'
      ]_vars

\* a drop has just replaced the forward with an overlay decided for the same id,
\* which no poll had read
C19_Witness ==
    /\ last.op = "drop"
    /\ last.ret # NoneV
    /\ last.ret.action = "forward"
    /\ last.ret.modifications = XTest
    /\ intercept_decisions[last.id].action = "drop"
    /\ intercept_decisions[last.id].modifications = EmptyDict
    /\ last.ret.timestamp \notin Held(pc, loc)
-----------------------------------------------------------------------------
(* C20 *)

\* C20: with ingest and clear running concurrently, every list() result is the
\* log of one instant, newest first and truncated to the limit given (a limit
\* k >= 0 leaves the newest min(k, n) entries, no limit leaves them all), and
\* every stats() result has total, by_method, by_host and most_recent of the log
\* of one instant, the by_method counts summing to total.
C20_SnapshotConsistency ==
    [][ /\ Lists =>
            LET n == Len(requests)
                k == last'.arg
            IN  /\ k = <<>> =>
                      last'.ret.requests = [i \in 1..n |-> requests[n - i + 1]]
                /\ (k # <<>> /\ k[1] >= 0) =>
                      last'.ret.requests =
                          [i \in 1..Min(k[1], n) |-> requests[n - i + 1]]
                /\ last'.ret.total = Len(last'.ret.requests)
        /\ last'.op = "get_stats" =>
            LET st == last'.ret
                n  == Len(requests)
            IN  /\ st.total = n
                /\ \A m \in DOMAIN st.by_method :
                      st.by_method[m] = Cardinality({ i \in 1..n : requests[i].method = m })
                /\ \A h \in DOMAIN st.by_host :
                      st.by_host[h] = Cardinality({ i \in 1..n : requests[i].host = h })
                /\ SumOver(st.by_method, DOMAIN st.by_method) = st.total
                /\ st.most_recent = IF n = 0 THEN NoneV ELSE requests[n]
      ]_vars
-----------------------------------------------------------------------------
(* C21 *)

\* a replay body that passes input validation: a body with a URL
ValidReplay(data) ==
    /\ data # NoneV
    /\ "url" \in DOMAIN data
    /\ data.url # ""

\* C21: a replay invocation with a body and a URL records exactly one history
\* entry, holding the request and the response when the outbound call succeeded
\* and the error when it failed, and returns that entry's id; an invocation with
\* no body or no URL is rejected (400) and records nothing.
C21_ReplayRecordedOnce ==
    [][ last'.op = "repeater_send" =>
            IF ValidReplay(last'.arg)
            THEN LET n == Len(repeater.history) IN
                 /\ Len(repeater'.history) = n + 1
                 /\ SubSeq(repeater'.history, 1, n) = repeater.history
                 /\ repeater'.history[n + 1].id = last'.ret.id
                 /\ repeater'.history[n + 1].request = last'.arg
                 /\ \A i \in 1..n : repeater.history[i].id # last'.ret.id
                 /\ \/ /\ last'.ret.status = 200
                       /\ repeater'.history[n + 1].response = response_data
                       /\ last'.aux = 1
                    \/ /\ last'.ret.status = 500
                       /\ repeater'.history[n + 1].response = error_response
                       /\ last'.aux = 2
            ELSE /\ repeater' = repeater
                 /\ last'.ret.status = 400
      ]_vars

\* a replay whose outbound call failed has just been recorded as the second
\* entry of the history, after one that succeeded
C21_Witness ==
    /\ last.op = "repeater_send"
    /\ last.aux = 2
    /\ last.ret = [status |-> 500, id |-> 2]
    /\ Len(repeater.history) = 2
    /\ repeater.history[1].response = response_data
    /\ repeater.history[2].response = error_response
    /\ repeater.history[2].id = 2
-----------------------------------------------------------------------------
(* C23 *)

\* C23: a poll never deletes a decision that it did not return: when a poll
\* clears the decision of its id, the decision in the table is the one the poll
\* read and returns, under any interleaving of decides with the poll.
C23_NoDecisionLost ==
    [][ \A t \in Threads :
          ( /\ pc[t] = "decision_clear"
            /\ pc'[t] = "idle"
            /\ loc[t].request_id \in DOMAIN intercept_decisions ) =>
                /\ intercept_decisions[loc[t].request_id] = loc[t].decision
                /\ last'.ret = intercept_decisions[loc[t].request_id]
      ]_vars

(* C24 *)

\* C24: in every reachable state no request id is both in the intercept queue
\* and in the decision table.
C24_QueuedMeansUndecided ==
    QueueIds \cap DOMAIN intercept_decisions = {}

(* C25 *)

\* C25: in every reachable state each entry of the intercept queue is the logged
\* request of its id: get(id) returns that same request.
C25_QueuedIsLogged ==
    \A i \in 1..Len(intercept_queue) :
        get_request(intercept_queue[i].id) = intercept_queue[i]

\* C22: the id the agent polls with is the id the store assigned to that
\* request.  When capture_request ingests the submission of a request the agent
\* is about to hold, the id add_request assigns is the agent's request_count,
\* the id of its polls.
C22_PollsAssignedId ==
    [][ ( /\ last'.op = "add_request"
          /\ agent.pc = "submit"
          /\ agent.intercept_enabled ) =>
              last'.id = agent.request_count
      ]_vars

\* C26: a recorded drop is honoured.  When the latest decision recorded for the
\* id the agent polls, while the agent was in its wait for that request, is a
\* drop, the agent does not leave the wait with the request forwarded: once the
\* agent is done with the request, the flow is killed.
C26_DropHonoured ==
    (agent.pc = "idle" /\ held_decision = "drop") => agent.flow.killed

\* C27: mediation while enabled, also when the agent's calls fail.  A request
\* the agent checks while interception is enabled is marked intercepted and
\* held; when the agent goes on from its submission the coordinator has just
\* ingested and enqueued it; and the agent leaves the wait with the request
\* unkilled only on a forward decision or with the wait window exhausted.
C27_MediatedWhileEnabled ==
    [][ /\ (last'.op = "check" /\ intercept_enabled) =>
              /\ agent'.intercept_enabled
              /\ "intercepted" \in DOMAIN agent'.request_data
        /\ (last'.op = "submit" /\ agent.intercept_enabled) =>
              /\ agent'.pc = "poll"
              /\ last.op = "add_to_intercept_queue"
        /\ (last'.op = "poll" /\ agent'.pc = "idle" /\ ~agent'.flow.killed) =>
              \/ ActionIs(last'.arg, "forward")
              \/ agent'.elapsed >= MaxWaitMs
      ]_vars

====
